---- MODULE Spec2Model ----
(***************************************************************************)
(* Model of ninja_extra/controllers/controller_route/route_functions.py:   *)
(* RouteFunction, RetrieveObjectRouteFunction and PaginatedRouteFunction.  *)
(*                                                                         *)
(* A handler (api_func) is a record [params, is_async]; params is the      *)
(* sequence inspect.signature(api_func).parameters, each parameter a       *)
(* record [name, kind, default, annotation].  from_route builds a          *)
(* RouteFunction instance and a wrapper (context_func) with a rewritten    *)
(* __signature__; a request runs the wrapper line by line against the      *)
(* external collaborators (the Route definition's factory and the          *)
(* controller instance), whose results are nondeterministic.               *)
(*                                                                         *)
(* SpecSig  resolves the signature of one route over every handler;        *)
(* Spec     puts one route under concurrent requests;                      *)
(* SpecInst registers several routes and serves requests one at a time;    *)
(* SpecPair sends one request to the sync and the async wrapper of the     *)
(*          same handler.                                                  *)
(***************************************************************************)
EXTENDS Naturals, Sequences, FiniteSets

VARIABLES
    type_of_params_Query,      \* type(params.Query), fixed when ninja is imported
    class_registered_filter,   \* the class attribute PaginatedRouteFunction.registered_filter
    routes,                    \* the (route_function, context_func) pairs from_route returned
    registration_error,        \* what the last from_route call raised, "None" if nothing
    calls                      \* the invocations of wrapped callables in flight, per slot

vars == <<type_of_params_Query, class_registered_filter, routes, registration_error, calls>>

-----------------------------------------------------------------------------
(* Bounds *)

MaxParams == 2      \* longest handler parameter list enumerated
MaxRoutes == 2      \* from_route calls that succeed
MaxCalls == 2       \* invocations in flight at once

-----------------------------------------------------------------------------
(* Python values *)

None == "None"

RouteClasses == {"RouteFunction", "RetrieveObjectRouteFunction", "PaginatedRouteFunction"}

Param(name, kind, default, annotation) ==
    [name |-> name, kind |-> kind, default |-> default, annotation |-> annotation]

\* Defaults: "empty" is the class inspect.Parameter.empty (no default);
\* "Query(...)" is an instance of ninja's Query marker.
ParamPool ==
    { Param("self", "POSITIONAL_OR_KEYWORD", "empty", "empty"),
      Param("request", "POSITIONAL_OR_KEYWORD", "empty", "empty"),
      Param("context", "POSITIONAL_OR_KEYWORD", "empty", "empty"),
      Param("pk", "POSITIONAL_OR_KEYWORD", "empty", "int"),
      Param("q", "POSITIONAL_OR_KEYWORD", "Query(...)", "QuerySchema"),
      Param("filters", "KEYWORD_ONLY", "Query(...)", "QuerySchema"),
      Param("kwargs", "VAR_KEYWORD", "empty", "empty") }

\* type(x) of a default value.  inspect.Parameter.empty is a class, so its
\* type is the metaclass `type`; Query(...) is an instance of Query.
TypeOf(default) ==
    CASE default = "empty" -> "type"
      [] default = "Query(...)" -> "Query"
      [] OTHER -> "object"

\* type(params.Query) at line 111: `type` where ninja.params.Query is a class
\* (ninja 0.x), ParamShortcut where it is a ParamShortcut instance (ninja 1.x).
QueryMarkerTypes == {"type", "ParamShortcut"}

KindRank(kind) ==
    CASE kind = "POSITIONAL_OR_KEYWORD" -> 1
      [] kind = "VAR_POSITIONAL" -> 2
      [] kind = "KEYWORD_ONLY" -> 3
      [] kind = "VAR_KEYWORD" -> 4

\* The checks inspect.Signature makes on a parameter list (replace at lines
\* 37 and 123 builds a new Signature): kinds in order, no positional parameter
\* without default after one with a default, no duplicate name.
SignatureValid(ps) ==
    /\ \A i, j \in 1..Len(ps) : i < j => KindRank(ps[i].kind) <= KindRank(ps[j].kind)
    /\ \A i, j \in 1..Len(ps) :
          (/\ i < j
           /\ ps[i].kind = "POSITIONAL_OR_KEYWORD"
           /\ ps[j].kind = "POSITIONAL_OR_KEYWORD"
           /\ ps[i].default # "empty") => ps[j].default # "empty"
    /\ \A i, j \in 1..Len(ps) : i # j => ps[i].name # ps[j].name

\* sig_inspect.replace(parameters=...): the new signature, or ValueError.
SignatureReplace(ps) ==
    IF SignatureValid(ps)
    THEN [raised |-> None, parameters |-> ps]
    ELSE [raised |-> "ValueError", parameters |-> <<>>]

SeqsUpTo(S, n) == UNION { [1..k -> S] : k \in 0..n }

\* Every function Python accepts over the pool, sync and async.
Handlers ==
    { [params |-> ps, is_async |-> a] :
        ps \in { s \in SeqsUpTo(ParamPool, MaxParams) : SignatureValid(s) },
        a \in BOOLEAN }

PoolParam(name) == CHOOSE p \in ParamPool : p.name = name

\* def h(self), def h(self, pk: int), def h(self, q: QuerySchema = Query(...)),
\* each sync and async.
SampleHandlers ==
    { [params |-> ps, is_async |-> a] :
        ps \in { <<PoolParam("self")>>,
                 <<PoolParam("self"), PoolParam("pk")>>,
                 <<PoolParam("self"), PoolParam("q")>> },
        a \in BOOLEAN }

RouteDefinitions == {"route"}

\* ninja.signature.is_async(api_func)
is_async(api_func) == api_func.is_async

-----------------------------------------------------------------------------
(* Attribute access on a RouteFunction instance *)

\* self.<name> = value: stored in the instance's own __dict__.
SetAttr(self, name, value) ==
    [self EXCEPT !.attrs =
        [a \in DOMAIN self.attrs \cup {name} |-> IF a = name THEN value ELSE self.attrs[a]]]

\* self.registered_filter: the instance's own attribute if it has one, else
\* the class attribute of line 100.
GetRegisteredFilter(self) ==
    IF "registered_filter" \in DOMAIN self.attrs
    THEN self.attrs["registered_filter"]
    ELSE class_registered_filter

-----------------------------------------------------------------------------
(* Registration: from_route and signature resolution *)

skip_parameters == {"context", "self", "request"}

\* RouteFunction.__init__
RouteFunctionInit(cls, route_definition, api_func) ==
    [cls |-> cls,
     attrs |-> [route_definition |-> route_definition, api_func |-> api_func]]

\* Variant: 'request' missing from skip_parameters.
get_required_keeping_request(api_func) ==
    SelectSeq(api_func.params, LAMBDA parameter : parameter.name \notin {"context", "self"})

\* sig_parameter of get_required_api_func_signature (sig_inspect is api_func.params)
get_required_api_func_signature(api_func) ==
    SelectSeq(api_func.params, LAMBDA parameter : parameter.name \notin skip_parameters)

\* RouteFunction._resolve_api_func_signature_
Base_resolve_api_func_signature_(self, api_func, context_func) ==
    LET sig_parameter == get_required_api_func_signature(api_func)
        sig_replaced == SignatureReplace(sig_parameter)
    IN  [raised |-> sig_replaced.raised,
         self |-> self,
         class_attr |-> class_registered_filter,
         context_func |-> [context_func EXCEPT !.signature = sig_replaced.parameters]]

\* The synthetic parameter of lines 115-120.
query_params ==
    Param("filters", "KEYWORD_ONLY", "Query(...)", "PaginatedRequestSchema")

has_query_param(required_func_signature) ==
    \E i \in 1..Len(required_func_signature) :
        TypeOf(required_func_signature[i].default) = type_of_params_Query

\* Variant: the flag is set on the class instead of on the instance.
set_registered_filter_on_class(self, class_attr) ==
    [self |-> self, class_attr |-> TRUE]

\* self.registered_filter = True (line 122): binds the name in the instance's
\* own __dict__; the class attribute keeps its value.
set_registered_filter(self, class_attr) ==
    [self |-> SetAttr(self, "registered_filter", TRUE), class_attr |-> class_attr]

\* PaginatedRouteFunction._resolve_api_func_signature_
Paginated_resolve_api_func_signature_(self, api_func, context_func) ==
    LET required_func_signature == get_required_api_func_signature(api_func)
        inject == ~has_query_param(required_func_signature)
        appended == IF inject
                    THEN Append(required_func_signature, query_params)
                    ELSE required_func_signature
        assigned == IF inject
                    THEN set_registered_filter(self, class_registered_filter)
                    ELSE [self |-> self, class_attr |-> class_registered_filter]
        sig_replaced == SignatureReplace(appended)
    IN  [raised |-> sig_replaced.raised,
         self |-> assigned.self,
         class_attr |-> assigned.class_attr,
         context_func |-> [context_func EXCEPT !.signature = sig_replaced.parameters]]

_resolve_api_func_signature_(self, api_func, context_func) ==
    IF self.cls = "PaginatedRouteFunction"
    THEN Paginated_resolve_api_func_signature_(self, api_func, context_func)
    ELSE Base_resolve_api_func_signature_(self, api_func, context_func)

\* The closure built at lines 59-63: a sync function wrapping api_func.
convert_api_func_to_context_view(self, api_func) ==
    _resolve_api_func_signature_(self, api_func,
        [is_async |-> FALSE, wrapped |-> api_func, signature |-> <<>>])

\* The closure built at lines 70-74: a coroutine function wrapping api_func.
convert_async_api_func_to_context_view(self, api_func) ==
    _resolve_api_func_signature_(self, api_func,
        [is_async |-> TRUE, wrapped |-> api_func, signature |-> <<>>])

from_route(cls, api_func, route_definition) ==
    LET route_function == RouteFunctionInit(cls, route_definition, api_func)
    IN  IF is_async(api_func)
        THEN convert_async_api_func_to_context_view(route_function, api_func)
        ELSE convert_api_func_to_context_view(route_function, api_func)

-----------------------------------------------------------------------------
(* Request time: the wrapped callable *)

\* Keyword arguments are a dict, modelled as a set of <<key, value>> pairs.
Keys(kwargs) == { kv[1] : kv \in kwargs }

KwargValue(key) == IF key = "filters" THEN "filters_value" ELSE "pk_value"

KwargsChoices == { { <<k, KwargValue(k)>> : k \in ks } : ks \in SUBSET {"filters", "pk"} }

Requests == {"request"}

ArgsChoices == { <<"arg">> }

\* dict.pop(key) without a default: removes the key, or raises KeyError.
DictPop(kwargs, key) ==
    IF key \in Keys(kwargs)
    THEN [raised |-> None, kwargs |-> { kv \in kwargs : kv[1] # key }]
    ELSE [raised |-> "KeyError", kwargs |-> kwargs]

\* What an external collaborator does when called: it returns or it raises.
Responses == {"return", "raise"}

\* One entry of an invocation's call log.
Called(callee, request, args, kwargs, funcs, raised, returned) ==
    [callee |-> callee, request |-> request, args |-> args, kwargs |-> kwargs,
     funcs |-> funcs, raised |-> raised, returned |-> returned]

External(callee, request, args, kwargs, funcs, response, exception, result) ==
    Called(callee, request, args, kwargs, funcs,
           IF response = "raise" THEN exception ELSE None,
           IF response = "raise" THEN None ELSE result)

\* RouteFunction.filter_registered_kwargs
Base_filter_registered_kwargs(self, kwargs) ==
    [self |-> self, raised |-> None, kwargs |-> kwargs]

\* Variant: the synthetic filters key is left in kwargs.
Paginated_filter_keeping_filters(self, kwargs) ==
    [self |-> self, raised |-> None, kwargs |-> kwargs]

\* Variant: the flag is cleared once the key has been popped.
Paginated_filter_clearing_flag(self, kwargs) ==
    IF GetRegisteredFilter(self)
    THEN LET popped == DictPop(kwargs, "filters")
         IN  [self |-> SetAttr(self, "registered_filter", FALSE),
              raised |-> popped.raised, kwargs |-> popped.kwargs]
    ELSE [self |-> self, raised |-> None, kwargs |-> kwargs]

\* PaginatedRouteFunction.filter_registered_kwargs
Paginated_filter_registered_kwargs(self, kwargs) ==
    IF GetRegisteredFilter(self)
    THEN LET popped == DictPop(kwargs, "filters")
         IN  [self |-> self, raised |-> popped.raised, kwargs |-> popped.kwargs]
    ELSE [self |-> self, raised |-> None, kwargs |-> kwargs]

filter_registered_kwargs(self, kwargs) ==
    IF self.cls = "PaginatedRouteFunction"
    THEN Paginated_filter_registered_kwargs(self, kwargs)
    ELSE Base_filter_registered_kwargs(self, kwargs)

\* RouteFunction.get_owner_instance: the Route definition's factory is called.
get_owner_instance(self, request, args, kwargs, response) ==
    External("create_view_func_instance", request, args, kwargs, {},
             response, "FactoryError", "controller_instance")

\* controller_instance.check_permissions()
check_permissions(response) ==
    External("check_permissions", None, <<>>, {}, {}, response, "PermissionDenied", None)

\* Variant: RetrieveObjectRouteFunction without its run_view_func override.
run_view_func_callee_not_overridden(cls) ==
    CASE cls = "RouteFunction" -> "run_view_func"
      [] cls = "RetrieveObjectRouteFunction" -> "run_view_func"
      [] cls = "PaginatedRouteFunction" -> "run_list_view_func"

\* The controller method each class's run_view_func calls (lines 79, 93, 128).
run_view_func_callee(cls) ==
    CASE cls = "RouteFunction" -> "run_view_func"
      [] cls = "RetrieveObjectRouteFunction" -> "run_object_view_func"
      [] cls = "PaginatedRouteFunction" -> "run_list_view_func"

\* The controller method each class's async_run_view_func awaits (lines 82, 96, 131).
async_run_view_func_callee(cls) ==
    CASE cls = "RouteFunction" -> "async_run_view_func"
      [] cls = "RetrieveObjectRouteFunction" -> "async_run_object_view_func"
      [] cls = "PaginatedRouteFunction" -> "async_run_list_view_func"

run_view_func(self, response) ==
    External(run_view_func_callee(self.cls), None, <<>>, {}, {self.attrs["api_func"]},
             response, "HandlerError", "response")

async_run_view_func(self, response) ==
    External(async_run_view_func_callee(self.cls), None, <<>>, {}, {self.attrs["api_func"]},
             response, "HandlerError", "response")

Idle == [pc |-> "idle"]

\* The frame of context_func(request, *args, **kwargs) on entry.
NewFrame(route, request, args, kwargs) ==
    [pc |-> "filter", route |-> route, request |-> request, args |-> args,
     incoming |-> kwargs, kwargs |-> kwargs, controller_instance |-> None,
     log |-> <<>>, outcome |-> [status |-> "running", value |-> None]]

\* The frame after a call that is logged as `entry`: the exception it raised
\* leaves context_func, otherwise control moves on to `pc`.
AfterCall(frame, entry, pc) ==
    IF entry.raised # None
    THEN [frame EXCEPT !.pc = "done", !.log = Append(@, entry),
                       !.outcome = [status |-> "raised", value |-> entry.raised]]
    ELSE [frame EXCEPT !.pc = pc, !.log = Append(@, entry)]

\* return <the value the call logged as `entry` gave>
ReturnResult(frame, entry) ==
    IF entry.raised # None
    THEN AfterCall(frame, entry, "done")
    ELSE [frame EXCEPT !.pc = "done", !.log = Append(@, entry),
                       !.outcome = [status |-> "returned", value |-> entry.returned]]

\* Line 61, the argument: self.filter_registered_kwargs(kwargs).
context_func_61_kwargs(self, frame) ==
    LET r == filter_registered_kwargs(self, frame.kwargs)
        entry == Called("filter_registered_kwargs", None, <<>>, frame.kwargs, {},
                        r.raised, None)
    IN  [self |-> r.self,
         frame |-> [AfterCall(frame, entry, "factory") EXCEPT !.kwargs = r.kwargs]]

\* Line 61, the call: controller_instance = self.get_owner_instance(...).
context_func_61_instance(self, frame, response) ==
    LET entry == get_owner_instance(self, frame.request, frame.args, frame.kwargs, response)
    IN  [AfterCall(frame, entry, "check") EXCEPT !.controller_instance = entry.returned]

\* Variant: the denial is caught and the view runs all the same.
context_func_62_swallowing(frame, response) ==
    [frame EXCEPT !.pc = "run", !.log = Append(@, check_permissions(response))]

\* Line 62: controller_instance.check_permissions().
context_func_62(frame, response) ==
    AfterCall(frame, check_permissions(response), "run")

\* Line 63: return self.run_view_func(controller_instance=controller_instance).
context_func_63(self, frame, response) ==
    ReturnResult(frame, run_view_func(self, response))

\* One step of the sync context_func (lines 60-63).
context_func(self, frame, response) ==
    CASE frame.pc = "filter" -> context_func_61_kwargs(self, frame)
      [] frame.pc = "factory" ->
            [self |-> self, frame |-> context_func_61_instance(self, frame, response)]
      [] frame.pc = "check" ->
            [self |-> self, frame |-> context_func_62(frame, response)]
      [] frame.pc = "run" ->
            [self |-> self, frame |-> context_func_63(self, frame, response)]

\* Line 72, the argument: self.filter_registered_kwargs(kwargs).
async_context_func_72_kwargs(self, frame) ==
    LET r == filter_registered_kwargs(self, frame.kwargs)
        entry == Called("filter_registered_kwargs", None, <<>>, frame.kwargs, {},
                        r.raised, None)
    IN  [self |-> r.self,
         frame |-> [AfterCall(frame, entry, "factory") EXCEPT !.kwargs = r.kwargs]]

\* Line 72, the call: controller_instance = self.get_owner_instance(...).
async_context_func_72_instance(self, frame, response) ==
    LET entry == get_owner_instance(self, frame.request, frame.args, frame.kwargs, response)
    IN  [AfterCall(frame, entry, "check") EXCEPT !.controller_instance = entry.returned]

\* Variant: the async wrapper without its permission check.
async_context_func_73_unchecked(frame, response) ==
    [frame EXCEPT !.pc = "run"]

\* Line 73: controller_instance.check_permissions(), not awaited.
async_context_func_73(frame, response) ==
    AfterCall(frame, check_permissions(response), "run")

\* Line 74: return await self.async_run_view_func(controller_instance=...).
async_context_func_74(self, frame, response) ==
    ReturnResult(frame, async_run_view_func(self, response))

\* One step of the async context_func (lines 71-74).
async_context_func(self, frame, response) ==
    CASE frame.pc = "filter" -> async_context_func_72_kwargs(self, frame)
      [] frame.pc = "factory" ->
            [self |-> self, frame |-> async_context_func_72_instance(self, frame, response)]
      [] frame.pc = "check" ->
            [self |-> self, frame |-> async_context_func_73(frame, response)]
      [] frame.pc = "run" ->
            [self |-> self, frame |-> async_context_func_74(self, frame, response)]

\* The filter step calls no collaborator: it has one way to go.
StepResponses(frame) == IF frame.pc = "filter" THEN {"return"} ELSE Responses

-----------------------------------------------------------------------------
(* State machine *)

Init ==
    /\ type_of_params_Query \in QueryMarkerTypes
    /\ class_registered_filter = FALSE
    /\ routes = <<>>
    /\ registration_error = None
    /\ calls = [s \in 1..MaxCalls |-> Idle]

\* One call of cls.from_route(api_func, route_definition): the pair it returns
\* is kept, or the ValueError of Signature.replace leaves the caller with nothing.
FromRoute(handlers) ==
    \E cls \in RouteClasses, api_func \in handlers, rd \in RouteDefinitions :
        LET r == from_route(cls, api_func, rd)
        IN  /\ registration_error' = r.raised
            /\ class_registered_filter' = r.class_attr
            /\ routes' = IF r.raised = None
                         THEN Append(routes, [route_function |-> r.self,
                                              context_func |-> r.context_func])
                         ELSE routes
            /\ UNCHANGED <<type_of_params_Query, calls>>

\* Registration of a single route, over every handler.
RegisterOne ==
    /\ routes = <<>>
    /\ FromRoute(Handlers)

\* Registration of a single route, over the sample handlers.
RegisterSample ==
    /\ routes = <<>>
    /\ FromRoute(SampleHandlers)

\* Registration of up to MaxRoutes routes.
RegisterRoutes ==
    /\ Len(routes) < MaxRoutes
    /\ FromRoute(SampleHandlers)

\* The same handler registered twice with the same class, once declared with
\* def and once with async def.
RegisterTwins ==
    /\ routes = <<>>
    /\ \E cls \in RouteClasses, h \in SampleHandlers, rd \in RouteDefinitions :
          LET r1 == from_route(cls, [h EXCEPT !.is_async = FALSE], rd)
              r2 == from_route(cls, [h EXCEPT !.is_async = TRUE], rd)
              made(r) == [route_function |-> r.self, context_func |-> r.context_func]
          IN  /\ r1.raised = None
              /\ r2.raised = None
              /\ routes' = <<made(r1), made(r2)>>
              /\ registration_error' = None
              /\ class_registered_filter' = r2.class_attr
              /\ UNCHANGED <<type_of_params_Query, calls>>

FreeSlot(s) ==
    /\ calls[s].pc = "idle"
    /\ \A t \in 1..MaxCalls : t < s => calls[t].pc # "idle"

\* The framework calls the wrapped callable of a registered route.
Invoke ==
    \E s \in 1..MaxCalls, i \in 1..Len(routes), request \in Requests,
       args \in ArgsChoices, kwargs \in KwargsChoices :
        /\ FreeSlot(s)
        /\ calls' = [calls EXCEPT ![s] = NewFrame(i, request, args, kwargs)]
        /\ UNCHANGED <<type_of_params_Query, class_registered_filter, routes,
                       registration_error>>

\* Requests served one at a time.
InvokeSerial ==
    /\ \A s \in 1..MaxCalls : calls[s].pc = "idle"
    /\ Invoke

\* The same request sent to the first and to the second route.
InvokeTwins ==
    /\ Len(routes) = 2
    /\ \A s \in 1..MaxCalls : calls[s].pc = "idle"
    /\ \E request \in Requests, args \in ArgsChoices, kwargs \in KwargsChoices :
          calls' = [calls EXCEPT ![1] = NewFrame(1, request, args, kwargs),
                                 ![2] = NewFrame(2, request, args, kwargs)]
    /\ UNCHANGED <<type_of_params_Query, class_registered_filter, routes,
                   registration_error>>

Running(s) == calls[s].pc \notin {"idle", "done"}

Advance(s, r) ==
    /\ calls' = [calls EXCEPT ![s] = r.frame]
    /\ routes' = [routes EXCEPT ![calls[s].route].route_function = r.self]
    /\ UNCHANGED <<type_of_params_Query, class_registered_filter, registration_error>>

\* A sync wrapped callable runs its next line.
SyncStep ==
    \E s \in 1..MaxCalls :
        /\ Running(s)
        /\ ~routes[calls[s].route].context_func.is_async
        /\ \E response \in StepResponses(calls[s]) :
              Advance(s, context_func(routes[calls[s].route].route_function,
                                      calls[s], response))

\* An async wrapped callable runs to its next line.
AsyncStep ==
    \E s \in 1..MaxCalls :
        /\ Running(s)
        /\ routes[calls[s].route].context_func.is_async
        /\ \E response \in StepResponses(calls[s]) :
              Advance(s, async_context_func(routes[calls[s].route].route_function,
                                            calls[s], response))

\* The framework has taken the result or the exception.
Return ==
    \E s \in 1..MaxCalls :
        /\ calls[s].pc = "done"
        /\ calls' = [calls EXCEPT ![s] = Idle]
        /\ UNCHANGED <<type_of_params_Query, class_registered_filter, routes,
                       registration_error>>

\* Signature resolution alone.
NextSig == RegisterOne

SpecSig == Init /\ [][NextSig]_vars

\* One route under concurrent requests.
Next == RegisterSample \/ Invoke \/ SyncStep \/ AsyncStep \/ Return

Spec == Init /\ [][Next]_vars

\* Several routes, requests one at a time.
NextInst == RegisterRoutes \/ InvokeSerial \/ SyncStep \/ AsyncStep \/ Return

SpecInst == Init /\ [][NextInst]_vars

\* A sync and an async route of the same handler under the same request.
NextPair == RegisterTwins \/ InvokeTwins \/ SyncStep \/ AsyncStep \/ Return

SpecPair == Init /\ [][NextPair]_vars

-----------------------------------------------------------------------------
(* Vocabulary of the properties *)

PaginatedRoute(rt) == rt.route_function.cls = "PaginatedRouteFunction"

HandlerOf(rt) == rt.route_function.attrs["api_func"]

ExposedSignature(rt) == rt.context_func.signature

\* A query-type parameter: its default is a Query(...) marker.
QueryType(p) == p.default = "Query(...)"

QueryTypeCount(ps) == Cardinality({ i \in 1..Len(ps) : QueryType(ps[i]) })

ContextNames == {"context", "self", "request"}

\* The handler's parameters other than context, self and request, by position.
ExposedPositions(h) == { i \in 1..Len(h.params) : h.params[i].name \notin ContextNames }

\* The signature ends with the synthetic keyword-only filters parameter,
\* beyond the handler's own parameters.
SyntheticFilters(rt) ==
    LET sig == ExposedSignature(rt)
    IN  /\ PaginatedRoute(rt)
        /\ Len(sig) = Cardinality(ExposedPositions(HandlerOf(rt))) + 1
        /\ sig[Len(sig)].name = "filters"
        /\ sig[Len(sig)].kind = "KEYWORD_ONLY"
        /\ sig[Len(sig)].annotation = "PaginatedRequestSchema"

\* The handler's parameters appear in the signature once each, unchanged and
\* in their order, at the first positions.
CarriesHandlerParams(rt) ==
    LET h == HandlerOf(rt)
        sig == ExposedSignature(rt)
        pos == ExposedPositions(h)
        rank(i) == Cardinality({ j \in pos : j <= i })
    IN  /\ Len(sig) >= Cardinality(pos)
        /\ \A i \in pos : sig[rank(i)] = h.params[i]
        /\ \A i \in pos : Cardinality({ k \in 1..Len(sig) : sig[k] = h.params[i] }) = 1

-----------------------------------------------------------------------------
(* Properties of signature resolution, under SpecSig *)

\* C3: for a paginated route, a handler with no query-type parameter gets its
\* required parameters plus exactly one keyword-only filters parameter and
\* registered_filter True; a handler with one query-type parameter gets its
\* required parameters only and registered_filter stays False.
C3_FiltersInjectedIffNoQueryParam ==
    \A r \in 1..Len(routes) :
        LET rt == routes[r]
            n == QueryTypeCount(HandlerOf(rt).params)
            required == Cardinality(ExposedPositions(HandlerOf(rt)))
        IN  PaginatedRoute(rt) =>
              /\ n = 0 => /\ CarriesHandlerParams(rt)
                          /\ SyntheticFilters(rt)
                          /\ GetRegisteredFilter(rt.route_function) = TRUE
              /\ n = 1 => /\ CarriesHandlerParams(rt)
                          /\ Len(ExposedSignature(rt)) = required
                          /\ GetRegisteredFilter(rt.route_function) = FALSE

\* C5: the exposed signature has no parameter named context, self or request;
\* every other parameter of the handler is in it exactly once, unchanged and in
\* the handler's order; the only parameter beyond these is, on a paginated
\* route, the synthetic filters parameter in last place.
C5_ExposedSignature ==
    \A r \in 1..Len(routes) :
        LET rt == routes[r]
            sig == ExposedSignature(rt)
            required == Cardinality(ExposedPositions(HandlerOf(rt)))
        IN  /\ \A k \in 1..Len(sig) : sig[k].name \notin ContextNames
            /\ CarriesHandlerParams(rt)
            /\ \/ Len(sig) = required
               \/ SyntheticFilters(rt)

\* C5 witness: a paginated route whose handler takes self, and pk, and whose
\* signature is pk followed by the synthetic filters.
C5_Witness ==
    \E r \in 1..Len(routes) :
        /\ SyntheticFilters(routes[r])
        /\ Len(HandlerOf(routes[r]).params) = 2
        /\ HandlerOf(routes[r]).params[1].name = "self"
        /\ Len(ExposedSignature(routes[r])) = 2

\* C6: a paginated route whose handler declares at most one query-type
\* parameter exposes at most one query-type parameter, the synthetic one
\* counted, which is injected only if the handler declares none.
C6_AtMostOneQueryParam ==
    \A r \in 1..Len(routes) :
        LET rt == routes[r]
        IN  (PaginatedRoute(rt) /\ QueryTypeCount(HandlerOf(rt).params) <= 1) =>
              /\ QueryTypeCount(ExposedSignature(rt)) <= 1
              /\ SyntheticFilters(rt) => QueryTypeCount(HandlerOf(rt).params) = 0

-----------------------------------------------------------------------------
(* Properties of one invocation, under Spec *)

StrategyMethods ==
    {"run_view_func", "run_object_view_func", "run_list_view_func",
     "async_run_view_func", "async_run_object_view_func", "async_run_list_view_func"}

Collaborators == {"create_view_func_instance", "check_permissions"} \cup StrategyMethods

InFlight == { s \in 1..MaxCalls : calls[s].pc # "idle" }

LogPositions(c, callees) == { i \in 1..Len(c.log) : c.log[i].callee \in callees }

Denied(c) ==
    \E i \in LogPositions(c, {"check_permissions"}) : c.log[i].raised # None

Permitted(c) ==
    \E i \in LogPositions(c, {"check_permissions"}) : c.log[i].raised = None

\* C1: when check_permissions raises, no execution-strategy method is called
\* in that invocation and the wrapped callable ends with that very exception.
C1_DenialStopsTheCall ==
    \A s \in InFlight :
        LET c == calls[s]
        IN  \A i \in LogPositions(c, {"check_permissions"}) :
                c.log[i].raised # None =>
                  /\ LogPositions(c, StrategyMethods) = {}
                  /\ c.pc = "done"
                  /\ c.outcome = [status |-> "raised", value |-> c.log[i].raised]

\* C1 witness: an invocation of an async route has ended with the
\* PermissionDenied its permission check raised.
C1_Witness ==
    \E s \in InFlight :
        /\ Denied(calls[s])
        /\ calls[s].pc = "done"
        /\ calls[s].outcome = [status |-> "raised", value |-> "PermissionDenied"]
        /\ routes[calls[s].route].context_func.is_async

\* The method the claim names for a route class and a handler's sync-ness.
NamedStrategy(cls, async) ==
    CASE cls = "RouteFunction" /\ ~async -> "run_view_func"
      [] cls = "RouteFunction" /\ async -> "async_run_view_func"
      [] cls = "RetrieveObjectRouteFunction" /\ ~async -> "run_object_view_func"
      [] cls = "RetrieveObjectRouteFunction" /\ async -> "async_run_object_view_func"
      [] cls = "PaginatedRouteFunction" /\ ~async -> "run_list_view_func"
      [] cls = "PaginatedRouteFunction" /\ async -> "async_run_list_view_func"

\* C2: an invocation whose permission check passed calls exactly one
\* execution-strategy method, the one of its route class and of its handler's
\* sync-ness, with the original handler, and ends with what that method
\* returned or raised; no strategy method is called before the check passes.
C2_OneStrategyByKind ==
    \A s \in InFlight :
        LET c == calls[s]
            rt == routes[c.route]
            strategies == LogPositions(c, StrategyMethods)
        IN  /\ ~Permitted(c) => strategies = {}
            /\ (Permitted(c) /\ c.pc = "done") =>
                  /\ strategies = {Len(c.log)}
                  /\ LET e == c.log[Len(c.log)]
                     IN  /\ e.callee = NamedStrategy(rt.route_function.cls,
                                                     HandlerOf(rt).is_async)
                         /\ e.funcs = {HandlerOf(rt)}
                         /\ e.raised = None =>
                               c.outcome = [status |-> "returned", value |-> e.returned]
                         /\ e.raised # None =>
                               c.outcome = [status |-> "raised", value |-> e.raised]

\* C2 witness: an invocation of an async object-retrieval route has returned
\* the strategy's result.
C2_Witness ==
    \E s \in InFlight :
        /\ calls[s].pc = "done"
        /\ calls[s].outcome = [status |-> "returned", value |-> "response"]
        /\ routes[calls[s].route].route_function.cls = "RetrieveObjectRouteFunction"
        /\ HandlerOf(routes[calls[s].route]).is_async

Without(kwargs, key) == { kv \in kwargs : kv[1] # key }

\* C4: the factory gets the request and the positional arguments unchanged;
\* with a synthetic filters parameter and a filters value among the keyword
\* arguments it gets the keyword arguments minus filters, and without a
\* synthetic parameter it gets all keyword arguments unchanged.
C4_KwargsForwarded ==
    \A s \in InFlight :
        LET c == calls[s]
            rt == routes[c.route]
        IN  \A i \in LogPositions(c, {"create_view_func_instance"}) :
                /\ c.log[i].request = c.request
                /\ c.log[i].args = c.args
                /\ (SyntheticFilters(rt) /\ "filters" \in Keys(c.incoming)) =>
                      c.log[i].kwargs = Without(c.incoming, "filters")
                /\ ~SyntheticFilters(rt) => c.log[i].kwargs = c.incoming

\* C4 witness: on a route with the synthetic parameter, the factory was called
\* for a request that carried filters and pk.
C4_Witness ==
    \E s \in InFlight :
        /\ SyntheticFilters(routes[calls[s].route])
        /\ Keys(calls[s].incoming) = {"filters", "pk"}
        /\ LogPositions(calls[s], {"create_view_func_instance"}) # {}

\* C7: an exception that leaves the wrapped callable was raised by one of the
\* collaborators called in that invocation; the wrapper's own steps raise none.
C7_OnlyCollaboratorsRaise ==
    \A s \in InFlight :
        LET c == calls[s]
        IN  c.outcome.status = "raised" =>
              /\ Len(c.log) > 0
              /\ c.log[Len(c.log)].callee \in Collaborators
              /\ c.log[Len(c.log)].raised = c.outcome.value

-----------------------------------------------------------------------------
(* Sync and async wrapping side by side, under SpecPair *)

\* A callee's name without the async_ prefix of the awaited strategy methods.
SyncName(callee) ==
    CASE callee = "async_run_view_func" -> "run_view_func"
      [] callee = "async_run_object_view_func" -> "run_object_view_func"
      [] callee = "async_run_list_view_func" -> "run_list_view_func"
      [] OTHER -> callee

\* A log entry as an observer of either path sees it: the strategy under its
\* sync name, the handler by its parameters.
Observed(e) ==
    [callee |-> SyncName(e.callee), request |-> e.request, args |-> e.args,
     kwargs |-> e.kwargs, funcs |-> { f.params : f \in e.funcs },
     raised |-> e.raised, returned |-> e.returned]

\* The collaborators behaved alike for both invocations: whichever collaborator
\* both called answered both the same way.
SameCollaboratorBehaviour(a, b) ==
    \A i \in LogPositions(a, Collaborators), j \in LogPositions(b, Collaborators) :
        SyncName(a.log[i].callee) = SyncName(b.log[j].callee) =>
            /\ a.log[i].raised = b.log[j].raised
            /\ a.log[i].returned = b.log[j].returned

CallOrder ==
    <<{"filter_registered_kwargs"}, {"create_view_func_instance"},
      {"check_permissions"}, StrategyMethods>>

TwinsDone ==
    /\ Len(routes) = 2
    /\ calls[1].pc = "done"
    /\ calls[2].pc = "done"
    /\ calls[1].route = 1
    /\ calls[2].route = 2

\* C8: the sync and the async wrapped callable of the same handler and route
\* class carry the same exposed signature and, given the same request and the
\* same collaborator behaviour, make the same calls in the same order
\* (filter_registered_kwargs, create_view_func_instance, check_permissions,
\* the strategy) with the same arguments and end with the same result or the
\* same exception.
C8_SyncAsyncEquivalent ==
    /\ Len(routes) = 2 =>
          ExposedSignature(routes[1]) = ExposedSignature(routes[2])
    /\ (TwinsDone /\ SameCollaboratorBehaviour(calls[1], calls[2])) =>
          LET a == calls[1]
              b == calls[2]
          IN  /\ Len(a.log) = Len(b.log)
              /\ \A i \in 1..Len(a.log) :
                    /\ Observed(a.log[i]) = Observed(b.log[i])
                    /\ a.log[i].callee \in CallOrder[i]
                    /\ a.log[i].callee \in StrategyMethods =>
                          /\ a.log[i].callee = NamedStrategy(routes[1].route_function.cls, FALSE)
                          /\ b.log[i].callee = NamedStrategy(routes[2].route_function.cls, TRUE)
              /\ a.outcome = b.outcome

\* C8 witness: the sync and the async twin have both ended, denied by the
\* permission check.
C8_Witness ==
    /\ TwinsDone
    /\ ~routes[1].context_func.is_async
    /\ routes[2].context_func.is_async
    /\ SameCollaboratorBehaviour(calls[1], calls[2])
    /\ Denied(calls[1])
    /\ Denied(calls[2])

-----------------------------------------------------------------------------
(* The RouteFunction instance at request time, under Spec *)

\* C9: once from_route has returned, no step of any invocation changes the
\* instance: registered_filter, api_func and route_definition keep their values.
C9_InstanceUnchangedByCalls ==
    [][\A r \in 1..Len(routes) :
          /\ r <= Len(routes')
          /\ routes'[r].route_function = routes[r].route_function
          /\ GetRegisteredFilter(routes'[r].route_function)
                = GetRegisteredFilter(routes[r].route_function)]_vars

\* C9 witness: on a route with the flag set, one invocation has failed in its
\* permission check while another one has got past the filter step.
C9_Witness ==
    \E s, t \in InFlight :
        /\ s # t
        /\ calls[s].route = calls[t].route
        /\ GetRegisteredFilter(routes[calls[s].route].route_function) = TRUE
        /\ Denied(calls[s])
        /\ calls[t].pc = "check"
        /\ calls[t].kwargs # calls[t].incoming

-----------------------------------------------------------------------------
(* Several instances, under SpecInst *)

\* C10: the class attribute stays False; each paginated instance's
\* registered_filter is True exactly when the synthetic filters parameter was
\* appended to its own wrapper's signature; an invocation of a route without
\* the synthetic parameter keeps filters among its keyword arguments.
C10_FlagIsPerInstance ==
    /\ class_registered_filter = FALSE
    /\ \A r \in 1..Len(routes) :
          PaginatedRoute(routes[r]) =>
              GetRegisteredFilter(routes[r].route_function) = SyntheticFilters(routes[r])
    /\ \A s \in InFlight :
          ~SyntheticFilters(routes[calls[s].route]) =>
              /\ calls[s].kwargs = calls[s].incoming
              /\ calls[s].outcome.value # "KeyError"

\* C10 witness: a paginated route with the synthetic parameter was registered
\* before one whose handler has none, and the second one's factory has been
\* called with the filters it was sent.
C10_Witness ==
    /\ Len(routes) = 2
    /\ SyntheticFilters(routes[1])
    /\ PaginatedRoute(routes[2])
    /\ ~SyntheticFilters(routes[2])
    /\ \E s \in InFlight :
          /\ calls[s].route = 2
          /\ "filters" \in Keys(calls[s].incoming)
          /\ \E i \in LogPositions(calls[s], {"create_view_func_instance"}) :
                calls[s].log[i].kwargs = calls[s].incoming

====
